---- MODULE Spec2Model ----
(***************************************************************************)
(* Model of docker_updater.py: run_updates, update_image and the          *)
(* PreviousRunData state file (previous_run.json), over several runs of    *)
(* the process, with the registry, the local image cache and the state     *)
(* file surviving from one run to the next.                                *)
(***************************************************************************)
EXTENDS Naturals, Sequences, FiniteSets, TLC

----------------------------------------------------------------------------
(* Bounds of the model *)

\* number of invocations of run_updates
MaxRuns == 2
\* number of pushes to the registry
MaxPushes == 1
\* number of services of a compose file
MaxServices == 3

\* image IDs (content digests); NoImage is existing_image_id = None (ImageNotFound)
Ids == {"sha_a", "sha_b"}
NoImage == "None"
Images == {"i1", "i2"}
\* p3 is a compose file path that no configured application has
Paths == {"p1", "p2", "p3"}

App(path, images) == [compose_file_path |-> path, images_to_pull |-> images]

\* the application lists run_updates is called with
AppLists ==
  { <<App("p1", <<"i1", "i2">>), App("p2", <<"i1">>)>>,   \* a shared image
    <<App("p1", <<"i1">>), App("p1", <<"i2">>)>>,         \* one path twice
    <<App("p1", <<"i1", "i1">>), App("p2", <<>>)>> }      \* one image twice, no image

VARIABLES
  docker_compose_apps,   \* the list run_updates is given (fixed over the runs)
  local,                 \* the local image cache: image -> ID or NoImage
  remote,                \* the registry: image -> ID
  prev_run_file,         \* previous_run.json: [exists, builds_needed (the JSON array)]
  needed,                \* prev_run_data.previous_image_builds_needed
  pc,                    \* position of the process in run_updates
  appIdx,                \* index of this_app in docker_compose_apps
  imgIdx,                \* index of the next entry of this_app.images_to_pull
  any_image_updated,
  this_image_updated,
  existing_image_id,     \* update_image's local, None outside a call's aftermath
  build_success,
  runs,                  \* runs started so far
  pushes,                \* registry pushes so far
  \* history variables
  rets,                  \* what update_image returned for this_app, in call order
  cmds,                  \* the external commands run for this_app: <<command, outcome>>
  attempted,             \* indices of the applications whose build was started in this run
  staleAtStart,          \* images whose remote ID differed from the local one at run start
  remoteStable,          \* no push to the registry since the run started
  fresh,                 \* images pulled since their remote last changed
  crashPending,          \* paths whose build/stop/start was executing when the last run crashed
  attempt,               \* per path: outcome of its most recent build attempt
  lostSuccess,           \* paths whose successful attempt was not recorded (crash before the write)
  shadowNeeded,          \* the pending set had every failed attempt of this run succeeded
  failedPaths,           \* paths with a failed attempt in this run
  prevFailed,            \* paths whose last attempt of the previous run failed
  read_raised,           \* the last PreviousRunData.read raised FileNotFoundError
  written,               \* the set the last PreviousRunData.write was called with
  pulled,                \* the images update_image was called with for this_app, in call order
  builds,                \* per list entry: build commands invoked in this run
  owed,                  \* paths with an image change detected in this run and no successful attempt since
  compose_file,          \* a compose file: its services, in document order
  result_list            \* what get_docker_compose_dep_images returned for compose_file

progVars == <<docker_compose_apps, local, remote, prev_run_file, needed, pc, appIdx,
              imgIdx, any_image_updated, this_image_updated, existing_image_id, build_success,
              runs, pushes>>
histVars == <<rets, cmds, attempted, staleAtStart, remoteStable, fresh, crashPending,
              attempt, lostSuccess, shadowNeeded, failedPaths, prevFailed>>
moreVars == <<read_raised, written, pulled, builds, owed>>
composeVars == <<compose_file, result_list>>
vars == <<progVars, histVars, moreVars, composeVars>>

----------------------------------------------------------------------------
(* Pure parts of the program *)

Range(s) == {s[i] : i \in 1..Len(s)}

RECURSIVE SetToSeq(_)
\* list(set): the elements in some order, each once
SetToSeq(S) ==
  IF S = {} THEN <<>>
  ELSE LET x == CHOOSE y \in S : TRUE IN <<x>> \o SetToSeq(S \ {x})

\* An image name is the sequence of the parts that its colons separate:
\* "db:13" is <<"db", "13">>, "web" is <<"web">>.
\* parse_image_name: (parts[0], parts[1] if there are two parts or more else 'latest')
parse_image_name(image_name) ==
  <<image_name[1], IF Len(image_name) >= 2 THEN image_name[2] ELSE "latest">>

\* re.IGNORECASE: the keyword of a Dockerfile line, in upper case
UpperCase(keyword) == IF keyword \in {"FROM", "from", "From"} THEN "FROM" ELSE keyword

\* a Dockerfile line is [keyword, arg]; the regex FROM\s+(\S+).* matches at
\* the start of the line, whatever the case of the keyword
RECURSIVE get_base_images(_)
get_base_images(lines) ==
  IF lines = <<>> THEN <<>>
  ELSE LET thisLine == Head(lines)
           found == IF UpperCase(thisLine.keyword) = "FROM"
                      THEN <<parse_image_name(thisLine.arg)>> ELSE <<>>
       IN found \o get_base_images(Tail(lines))

\* lines 47-58: the loop over the services from service i on, with the lists
\* accumulated so far; a service is [image, build, dockerfile (its lines)]
RECURSIVE ServicesLoop(_, _, _, _)
ServicesLoop(services, i, results, built) ==
  IF i > Len(services) THEN [result_list |-> results, built_images |-> built]
  ELSE LET svc_dict == services[i] IN
       IF svc_dict.build
         THEN ServicesLoop(services, i + 1,
                           results \o get_base_images(svc_dict.dockerfile),
                           Append(built, parse_image_name(svc_dict.image)[1]))
         ELSE ServicesLoop(services, i + 1,
                           Append(results, parse_image_name(svc_dict.image)),
                           built)

\* the filter of line 60
NotBuiltHere(results, built) ==
  SelectSeq(results, LAMBDA this_result : this_result[1] \notin Range(built))

\* faulty variant: each image is filtered when it is met, against the services
\* seen so far
RECURSIVE FilterAsMet(_, _, _, _)
FilterAsMet(services, i, results, built) ==
  IF i > Len(services) THEN results
  ELSE LET svc_dict == services[i]
           now == IF svc_dict.build
                    THEN Append(built, parse_image_name(svc_dict.image)[1]) ELSE built
           more == IF svc_dict.build THEN get_base_images(svc_dict.dockerfile)
                                     ELSE <<parse_image_name(svc_dict.image)>>
       IN FilterAsMet(services, i + 1, results \o NotBuiltHere(more, now), now)

get_docker_compose_dep_images_as_met(services) == FilterAsMet(services, 1, <<>>, <<>>)

\* get_docker_compose_dep_images, of the services of the compose file
get_docker_compose_dep_images(services) ==
  LET all == ServicesLoop(services, 1, <<>>, <<>>)
  IN NotBuiltHere(all.result_list, all.built_images)

\* docker_client.images.get(name:tag).id, None on ImageNotFound
ImagesGet(cache, img) == cache[img]

\* docker_client.images.pull(...).id: the ID of the registry's image
ImagesPull(registry, img) == registry[img]

\* faulty variant: the pulled image does not replace the cached one
StoreImageNoop(cache, img, id) == cache

\* the side effect of the pull: the pulled image is now the cached one
StoreImage(cache, img, id) == [cache EXCEPT ![img] = id]

\* faulty variant: a missing local image counts as unchanged
update_image_known(existing_id, new_id) ==
  existing_id /= NoImage /\ existing_id /= new_id

\* the result of update_image: existing_image_id != new_image.id
update_image(existing_id, new_id) == existing_id /= new_id

\* faulty variant: the accumulator keeps only the last call's result
AnyUpdatedLast(any, this) == this

\* any_image_updated if any_image_updated else this_image_updated
AnyUpdated(any, this) == IF any THEN any ELSE this

\* faulty variant: every application is rebuilt
TriggeredAlways(any, path, builds_needed) == TRUE

\* the trigger condition of line 100
Triggered(any, path, builds_needed) == any \/ path \in builds_needed

\* PreviousRunData.write: json.dump({'builds_needed': list(set)})
write(builds_needed) == [exists |-> TRUE, builds_needed |-> SetToSeq(builds_needed)]

\* PreviousRunData.read: set(json.load(file)['builds_needed'])
read(file) == Range(file.builds_needed)

\* run_updates: read, with FileNotFoundError caught
ReadOrEmpty(file) == IF file.exists THEN read(file) ELSE {}

\* faulty variant: a missing file is taken for an empty one
ReadRaisesNever(file) == FALSE

\* PreviousRunData.read: open(path, 'r') raises FileNotFoundError (line 73)
ReadRaises(file) == ~file.exists

\* faulty variant: the file's paths are added to the instance's set
ReadIntoUnion(old, file) == IF file.exists THEN old \cup read(file) ELSE old

\* PreviousRunData.read on an instance holding old: line 75 assigns the set,
\* and is not reached when open raises
ReadInto(old, file) == IF file.exists THEN read(file) ELSE old

\* the content of the state file as a set, an absent file counting as empty
FileSet == ReadOrEmpty(prev_run_file)

this_app == docker_compose_apps[appIdx]
this_path == this_app.compose_file_path

\* faulty variant: the path is not added to the pending set
MarkNeededNoop(builds_needed, path) == builds_needed

\* the add of line 105 (done when the path is not yet a member)
MarkNeeded(builds_needed, path) == builds_needed \cup {path}

\* faulty variant: the pending mark is not persisted before the build
MarkFileNoWrite(file, builds_needed, path) == file

\* the state file after lines 104-106: written only when the path was added
MarkFile(file, builds_needed, path) ==
  IF path \in builds_needed THEN file ELSE write(MarkNeeded(builds_needed, path))

\* faulty variant: a failing stop does not leave the try block
AfterStopContinue(outcome) == "start"

\* where control goes after each command of lines 110-112; CalledProcessError
\* ("fail") and TimeoutExpired ("timeout") leave the try block
AfterBuild(outcome) == IF outcome = "ok" THEN "stop" ELSE "finish"
AfterStop(outcome) == IF outcome = "ok" THEN "start" ELSE "finish"
AfterStart(outcome) == "finish"

\* build_success after a command: set to False by the except clauses only
SuccessAfter(success, outcome) == IF outcome = "ok" THEN success ELSE FALSE

\* faulty variant: a success empties the pending set
FinishNeededClear(success, builds_needed, path) ==
  IF success THEN {} ELSE builds_needed

\* faulty variant: the path is removed whether or not the attempt succeeded
FinishNeededAlways(success, builds_needed, path) == builds_needed \ {path}

\* lines 118-123: the pending set after the attempt
FinishNeeded(success, builds_needed, path) ==
  IF success THEN builds_needed \ {path} ELSE builds_needed

\* faulty variant: the removal is not persisted
FinishFileNoWrite(success, file, builds_needed, path) == file

\* lines 118-123: the state file after the attempt (written on success only)
FinishFile(success, file, builds_needed, path) ==
  IF success THEN write(FinishNeeded(success, builds_needed, path)) ELSE file

\* faulty variant: a failed attempt is retried at once
AfterFinishRetry(success) == IF success THEN "loop" ELSE "build"

\* faulty variant: a failed attempt ends the run
AfterFinishAbort(success) == IF success THEN "loop" ELSE "aborted"

\* lines 113-123: both except clauses swallow the error and the print falls
\* through to the next iteration of the for loop
AfterFinish(success) == "loop"

\* faulty variant: the pulls stop at the first image reported as changed
PullsDoneAtFirstChange(idx, images, any) == any \/ idx > Len(images)

\* line 93: the for loop over images_to_pull is exhausted
PullsDone(idx, images, any) == idx > Len(images)

BuildOutcomes == {"ok", "fail", "timeout"}
\* stop and start are called without a timeout
CommandOutcomes == {"ok", "fail"}

Stale(cache, registry) == {i \in Images : cache[i] /= registry[i]}

----------------------------------------------------------------------------
(* The state machine *)

Init ==
  /\ docker_compose_apps \in AppLists
  /\ local \in [Images -> {NoImage} \cup Ids]
  /\ remote \in [Images -> Ids]
  /\ prev_run_file \in {[exists |-> FALSE, builds_needed |-> <<>>]}
                         \cup {write(S) : S \in SUBSET Paths}
  /\ needed = {}
  /\ pc = "init"
  /\ appIdx = 0
  /\ imgIdx = 1
  /\ any_image_updated = FALSE
  /\ this_image_updated = FALSE
  /\ existing_image_id = NoImage
  /\ build_success = TRUE
  /\ runs = 0
  /\ pushes = 0
  /\ rets = <<>>
  /\ cmds = <<>>
  /\ attempted = {}
  /\ staleAtStart = {}
  /\ remoteStable = TRUE
  /\ fresh = {}
  /\ crashPending = {}
  /\ attempt = [p \in Paths |-> IF p \in FileSet THEN "failed" ELSE "none"]
  /\ lostSuccess = {}
  /\ shadowNeeded = {}
  /\ failedPaths = {}
  /\ prevFailed = {}
  /\ read_raised = FALSE
  /\ written = FileSet
  /\ pulled = <<>>
  /\ builds = [a \in 1..Len(docker_compose_apps) |-> 0]
  /\ owed = {}
  /\ compose_file = <<>>
  /\ result_list = <<>>

Stopped == pc \in {"init", "done", "aborted", "crashed"}
Running == ~Stopped

\* lines 83-89: a new process enters run_updates and reads the state file
Start ==
  /\ Stopped
  /\ runs < MaxRuns
  /\ runs' = runs + 1
  /\ needed' = ReadOrEmpty(prev_run_file)
  /\ read_raised' = ReadRaises(prev_run_file)
  /\ pulled' = <<>>
  /\ builds' = [a \in 1..Len(docker_compose_apps) |-> 0]
  /\ owed' = {}
  /\ UNCHANGED <<written, composeVars>>
  /\ pc' = "loop"
  /\ appIdx' = 0
  /\ imgIdx' = 1
  /\ any_image_updated' = FALSE
  /\ this_image_updated' = FALSE
  /\ existing_image_id' = NoImage
  /\ build_success' = TRUE
  /\ rets' = <<>>
  /\ cmds' = <<>>
  /\ attempted' = {}
  /\ staleAtStart' = Stale(local, remote)
  /\ remoteStable' = TRUE
  /\ shadowNeeded' = ReadOrEmpty(prev_run_file)
  /\ failedPaths' = {}
  /\ prevFailed' = {p \in failedPaths : attempt[p] = "failed"}
  /\ crashPending' = IF pc = "crashed" THEN crashPending ELSE {}
  /\ UNCHANGED <<docker_compose_apps, local, remote, prev_run_file, pushes, fresh,
                 attempt, lostSuccess>>

\* line 91-92: the for loop takes the next application, or the run ends
LoopNext ==
  /\ pc = "loop"
  /\ IF appIdx < Len(docker_compose_apps)
       THEN /\ appIdx' = appIdx + 1
            /\ pc' = "pull"
       ELSE /\ appIdx' = appIdx
            /\ pc' = "done"
  /\ imgIdx' = 1
  /\ any_image_updated' = FALSE
  /\ rets' = <<>>
  /\ cmds' = <<>>
  /\ pulled' = <<>>
  /\ UNCHANGED <<read_raised, written, builds, owed, composeVars>>
  /\ UNCHANGED <<docker_compose_apps, local, remote, prev_run_file, needed,
                 this_image_updated, existing_image_id, build_success, runs, pushes,
                 attempted, staleAtStart, remoteStable, fresh, crashPending, attempt,
                 lostSuccess, shadowNeeded, failedPaths, prevFailed>>

\* lines 93-98: one update_image call, for entry imgIdx of the pull list
Pull ==
  /\ pc = "pull"
  /\ ~PullsDone(imgIdx, this_app.images_to_pull, any_image_updated)
  /\ LET img == this_app.images_to_pull[imgIdx]
         existing == ImagesGet(local, img)
         new_image_id == ImagesPull(remote, img)
         updated == update_image(existing, new_image_id)
     IN /\ existing_image_id' = existing
        /\ local' = StoreImage(local, img, new_image_id)
        /\ this_image_updated' = updated
        /\ any_image_updated' = AnyUpdated(any_image_updated, updated)
        /\ rets' = Append(rets, updated)
        /\ fresh' = fresh \cup {img}
        /\ pulled' = Append(pulled, img)
        /\ owed' = IF updated THEN owed \cup {this_path} ELSE owed
  /\ imgIdx' = imgIdx + 1
  /\ UNCHANGED <<read_raised, written, builds, composeVars>>
  /\ UNCHANGED <<docker_compose_apps, remote, prev_run_file, needed, pc, appIdx,
                 build_success, runs, pushes, cmds, attempted, staleAtStart,
                 remoteStable, crashPending, attempt, lostSuccess, shadowNeeded,
                 failedPaths, prevFailed>>

\* line 35: the pull raises (registry unreachable, image gone): nothing catches
\* it, and run_updates is left with the exception
PullError ==
  /\ pc = "pull"
  /\ ~PullsDone(imgIdx, this_app.images_to_pull, any_image_updated)
  /\ pc' = "aborted"
  /\ UNCHANGED <<moreVars, composeVars>>
  /\ UNCHANGED <<docker_compose_apps, local, remote, prev_run_file, needed, appIdx,
                 imgIdx, any_image_updated, this_image_updated, existing_image_id,
                 build_success, runs, pushes, histVars>>

\* lines 100-106: the trigger decision, and the pending mark with its write
Decide ==
  /\ pc = "pull"
  /\ PullsDone(imgIdx, this_app.images_to_pull, any_image_updated)
  /\ IF Triggered(any_image_updated, this_path, needed)
       THEN /\ needed' = MarkNeeded(needed, this_path)
            /\ written' = IF this_path \in needed THEN written
                                                  ELSE MarkNeeded(needed, this_path)
            /\ prev_run_file' = MarkFile(prev_run_file, needed, this_path)
            /\ build_success' = TRUE
            /\ pc' = "build"
            /\ attempted' = attempted \cup {appIdx}
            /\ attempt' = [attempt EXCEPT ![this_path] = "unfinished"]
            /\ lostSuccess' = lostSuccess \ {this_path}
            /\ shadowNeeded' = shadowNeeded \cup {this_path}
       ELSE /\ pc' = "loop"
            /\ UNCHANGED <<needed, prev_run_file, build_success, attempted, attempt,
                           lostSuccess, shadowNeeded, written>>
  /\ existing_image_id' = NoImage
  /\ UNCHANGED <<read_raised, pulled, builds, owed, composeVars>>
  /\ UNCHANGED <<docker_compose_apps, local, remote, appIdx, imgIdx, any_image_updated,
                 this_image_updated, runs, pushes, rets, cmds, staleAtStart,
                 remoteStable, fresh, crashPending, failedPaths, prevFailed>>

\* the history of an attempt whose outcome is known
AttemptOver(success) ==
  /\ attempt' = [attempt EXCEPT ![this_path] = IF success THEN "ok" ELSE "failed"]
  /\ failedPaths' = IF success THEN failedPaths ELSE failedPaths \cup {this_path}
  /\ owed' = IF success THEN owed \ {this_path} ELSE owed

Command(at, name, outcome, next) ==
  /\ pc = at
  /\ pc' = next
  /\ build_success' = SuccessAfter(build_success, outcome)
  /\ cmds' = Append(cmds, <<name, outcome>>)
  /\ IF next = "finish"
       THEN AttemptOver(SuccessAfter(build_success, outcome))
       ELSE UNCHANGED <<attempt, failedPaths, owed>>
  /\ builds' = IF name = "build" THEN [builds EXCEPT ![appIdx] = @ + 1] ELSE builds
  /\ UNCHANGED <<read_raised, written, pulled, composeVars>>
  /\ UNCHANGED <<docker_compose_apps, local, remote, prev_run_file, needed, appIdx,
                 imgIdx, any_image_updated, this_image_updated, existing_image_id,
                 runs, pushes, rets, attempted, staleAtStart, remoteStable, fresh,
                 crashPending, lostSuccess, shadowNeeded, prevFailed>>

\* line 110: docker-compose build, with the application's build timeout
Build == \E o \in BuildOutcomes : Command("build", "build", o, AfterBuild(o))

\* line 111: docker-compose stop
Stop == \E o \in CommandOutcomes : Command("stop", "stop", o, AfterStop(o))

\* line 112: docker-compose up --detach --force-recreate
StartContainers == \E o \in CommandOutcomes : Command("start", "start", o, AfterStart(o))

\* lines 118-123: on success the path is removed and the file written
Finish ==
  /\ pc = "finish"
  /\ IF build_success /\ this_path \notin needed
       THEN \* set.remove raises KeyError, which nothing catches
            /\ pc' = "aborted"
            /\ UNCHANGED <<needed, prev_run_file, shadowNeeded, written>>
       ELSE /\ needed' = FinishNeeded(build_success, needed, this_path)
            /\ written' = IF build_success
                             THEN FinishNeeded(build_success, needed, this_path)
                             ELSE written
            /\ prev_run_file' = FinishFile(build_success, prev_run_file, needed, this_path)
            /\ shadowNeeded' = shadowNeeded \ {this_path}
            /\ pc' = AfterFinish(build_success)
  /\ UNCHANGED <<read_raised, pulled, builds, owed, composeVars>>
  /\ UNCHANGED <<docker_compose_apps, local, remote, appIdx, imgIdx, any_image_updated,
                 this_image_updated, existing_image_id, build_success, runs, pushes,
                 rets, cmds, attempted, staleAtStart, remoteStable, fresh, crashPending,
                 attempt, lostSuccess, failedPaths, prevFailed>>

\* the process is killed (or the machine stops) at any point of the run; the
\* local image cache and the state file stay as they are
Crash ==
  /\ Running
  /\ pc' = "crashed"
  /\ needed' = {}
  /\ crashPending' = IF pc \in {"build", "stop", "start", "finish"}
                       THEN {this_path} ELSE {}
  /\ lostSuccess' = IF pc = "finish" /\ build_success
                      THEN lostSuccess \cup {this_path} ELSE lostSuccess
  \* the process's variables are gone
  /\ appIdx' = 0
  /\ imgIdx' = 1
  /\ any_image_updated' = FALSE
  /\ this_image_updated' = FALSE
  /\ existing_image_id' = NoImage
  /\ build_success' = TRUE
  /\ rets' = <<>>
  /\ cmds' = <<>>
  /\ shadowNeeded' = {}
  /\ failedPaths' = {}
  /\ read_raised' = FALSE
  /\ pulled' = <<>>
  /\ builds' = [a \in 1..Len(docker_compose_apps) |-> 0]
  /\ UNCHANGED <<written, owed, composeVars>>
  /\ UNCHANGED <<docker_compose_apps, local, remote, prev_run_file, runs, pushes,
                 attempted, staleAtStart, remoteStable, fresh, attempt, prevFailed>>

\* somebody pushes a new image to the registry, at any time
RemotePush ==
  /\ pushes < MaxPushes
  /\ \E i \in Images : \E id \in Ids \ {remote[i]} :
       /\ remote' = [remote EXCEPT ![i] = id]
       /\ fresh' = fresh \ {i}
  /\ pushes' = pushes + 1
  /\ remoteStable' = (remoteStable /\ Stopped)
  /\ UNCHANGED <<moreVars, composeVars>>
  /\ UNCHANGED <<docker_compose_apps, local, prev_run_file, needed, pc, appIdx, imgIdx,
                 any_image_updated, this_image_updated, existing_image_id, build_success,
                 runs, rets, cmds, attempted, staleAtStart, crashPending, attempt,
                 lostSuccess, shadowNeeded, failedPaths, prevFailed>>

Next ==
  \/ Start
  \/ LoopNext
  \/ Pull
  \/ PullError
  \/ Decide
  \/ Build
  \/ Stop
  \/ StartContainers
  \/ Finish
  \/ Crash
  \/ RemotePush

Spec == Init /\ [][Next]_vars

----------------------------------------------------------------------------
(* PreviousRunData on its own: instances of the class writing and reading one
   path, outside run_updates *)

\* the variables of run_updates, which take no part here
runVars == <<docker_compose_apps, local, remote, appIdx, imgIdx, any_image_updated,
             this_image_updated, existing_image_id, build_success, runs, pushes,
             histVars, pulled, builds, owed>>

InitRunVarsUnused ==
  /\ docker_compose_apps = <<>>
  /\ local = [i \in Images |-> NoImage]
  /\ remote = [i \in Images |-> "sha_a"]
  /\ appIdx = 0
  /\ imgIdx = 1
  /\ any_image_updated = FALSE
  /\ this_image_updated = FALSE
  /\ existing_image_id = NoImage
  /\ build_success = TRUE
  /\ runs = 0
  /\ pushes = 0
  /\ rets = <<>>
  /\ cmds = <<>>
  /\ attempted = {}
  /\ staleAtStart = {}
  /\ remoteStable = TRUE
  /\ fresh = {}
  /\ crashPending = {}
  /\ attempt = [p \in Paths |-> "none"]
  /\ lostSuccess = {}
  /\ shadowNeeded = {}
  /\ failedPaths = {}
  /\ prevFailed = {}
  /\ pulled = <<>>
  /\ builds = <<>>
  /\ owed = {}

\* an instance populated with any set of paths; no file at the path yet
InitPersist ==
  /\ InitRunVarsUnused
  /\ needed \in SUBSET Paths
  /\ prev_run_file = [exists |-> FALSE, builds_needed |-> <<>>]
  /\ read_raised = FALSE
  /\ written = {}
  /\ pc = "object"
  /\ compose_file = <<>>
  /\ result_list = <<>>

\* lines 77-79: the instance writes its set
PersistWrite ==
  /\ pc \in {"object", "other", "read"}
  /\ prev_run_file' = write(needed)
  /\ written' = needed
  /\ pc' = "wrote"
  /\ UNCHANGED <<needed, read_raised, runVars, composeVars>>

\* lines 69-70: another instance, fresh (empty) or populated with other paths
PersistOther ==
  /\ pc \in {"object", "wrote"}
  /\ \E T \in SUBSET Paths : needed' = T
  /\ pc' = "other"
  /\ UNCHANGED <<prev_run_file, written, read_raised, runVars, composeVars>>

\* lines 72-75: the instance reads the path
PersistRead ==
  /\ pc \in {"object", "other"}
  /\ read_raised' = ReadRaises(prev_run_file)
  /\ needed' = ReadInto(needed, prev_run_file)
  /\ pc' = "read"
  /\ UNCHANGED <<prev_run_file, written, runVars, composeVars>>

NextPersist ==
  \/ PersistWrite
  \/ PersistOther
  \/ PersistRead

SpecPersist == InitPersist /\ [][NextPersist]_vars

----------------------------------------------------------------------------
(* get_docker_compose_dep_images on its own *)

Line(keyword, arg) == [keyword |-> keyword, arg |-> arg]
Service(image, build, dockerfile) ==
  [image |-> image, build |-> build, dockerfile |-> dockerfile]

\* the services a compose file is made of
ServiceKinds ==
  { Service(<<"web">>, TRUE, <<Line("FROM", <<"base", "1">>), Line("RUN", <<"make">>)>>),
    Service(<<"base", "1">>, TRUE, <<Line("from", <<"db", "13">>), Line("FROM", <<"web", "2">>)>>),
    Service(<<"db", "13">>, FALSE, <<>>),
    Service(<<"web", "2">>, FALSE, <<>>),
    Service(<<"base">>, FALSE, <<>>),
    Service(<<"cache">>, FALSE, <<>>) }

ComposeFiles ==
  UNION {[1..n -> ServiceKinds] : n \in 1..MaxServices}

InitCompose ==
  /\ InitRunVarsUnused
  /\ needed = {}
  /\ prev_run_file = [exists |-> FALSE, builds_needed |-> <<>>]
  /\ read_raised = FALSE
  /\ written = {}
  /\ pc = "compose"
  /\ compose_file \in ComposeFiles
  /\ result_list = <<>>

\* line 65: DockerComposeApp computes its pull list from the compose file
Resolve ==
  /\ pc = "compose"
  /\ result_list' = get_docker_compose_dep_images(compose_file)
  /\ pc' = "resolved"
  /\ UNCHANGED <<compose_file, needed, prev_run_file, read_raised, written, runVars>>

NextCompose == Resolve

SpecCompose == InitCompose /\ [][NextCompose]_vars

----------------------------------------------------------------------------
(* Properties *)

AnyTrue(s) == \E k \in 1..Len(s) : s[k]
PathOf(a) == docker_compose_apps[a].compose_file_path
ImagesOf(a) == Range(docker_compose_apps[a].images_to_pull)
AppIdxs == 1..Len(docker_compose_apps)

\* the step of lines 100-106: all pulls of this_app are done and the trigger is decided
DecideStep ==
  /\ pc = "pull"
  /\ imgIdx > Len(this_app.images_to_pull)
  /\ pc' \in {"build", "loop"}

\* C1: the build/stop/start sequence of an application is started in a step if
\* and only if that step is the application's trigger decision and either one
\* of its update_image calls of this run returned true or its path is in the
\* pending-build set at that moment.
C1_TriggerIff ==
  [][ (pc /= "build" /\ pc' = "build")
        <=> (DecideStep /\ (AnyTrue(rets) \/ this_path \in needed)) ]_vars

\* C1 witness: the sequence is started for an application whose first pull
\* returned true and whose second returned false
C1_Witness ==
  /\ pc = "build"
  /\ rets = <<TRUE, FALSE>>
  /\ any_image_updated
  /\ appIdx \in attempted

\* C2: at the normal end of a run during which the registry did not change,
\* every application with an image in its pull list that was stale at the
\* start of the run has had a build attempt in that run.
C2_EveryStaleAppBuilt ==
  (pc = "done" /\ remoteStable)
    => \A a \in AppIdxs : (ImagesOf(a) \cap staleAtStart /= {}) => a \in attempted

\* C3: while build, stop or start executes, the state file lists the path; and
\* a run that ends normally after a run that crashed between the start of the
\* build and the write after the attempt has started a build for that path.
C3_PendingOnDisk ==
  /\ pc \in {"build", "stop", "start"}
       => (prev_run_file.exists /\ this_path \in read(prev_run_file))
  /\ pc = "done"
       => \A p \in crashPending : \E a \in attempted : PathOf(a) = p

\* C3 witness: the run after a crash during an attempt has ended, having
\* started the build for the path of the interrupted attempt
C3_Witness ==
  /\ pc = "done"
  /\ crashPending /= {}
  /\ \A p \in crashPending : \E a \in attempted : PathOf(a) = p

\* the attempt of this_app has just ended with a successful start command
JustSucceeded ==
  /\ pc = "loop"
  /\ Len(cmds) = 3
  /\ cmds[3] = <<"start", "ok">>

\* C4 as stated: every path with a failed attempt in the run is pending, in
\* memory and in the file, when the run ends; and a success removes it.
C4_FailedStaysPending ==
  /\ pc = "done" => \A p \in failedPaths : p \in needed /\ p \in FileSet
  /\ JustSucceeded => (this_path \notin needed /\ this_path \notin FileSet)

\* C4 amended: every path whose last attempt of the run failed is pending, in
\* memory and in the file, when the run ends (normally or by an exception);
\* and right after a successful attempt the path is in neither, also in a
\* following run in which no image changed.
C4_LastFailedStaysPending ==
  /\ pc \in {"done", "aborted"}
       => \A p \in failedPaths :
            attempt[p] = "failed" => (p \in needed /\ p \in FileSet)
  /\ JustSucceeded => (this_path \notin needed /\ this_path \notin FileSet)

\* C4 witness: the attempt failed in the previous run, and in this run it
\* succeeded with no image changed; the path is gone from set and file
C4_Witness ==
  /\ JustSucceeded
  /\ this_path \in prevFailed
  /\ ~AnyTrue(rets)
  /\ this_path \notin needed
  /\ this_path \notin FileSet

CommandOrder == <<"build", "stop", "start">>

\* C5: the commands of an attempt are a prefix of build, stop, start; each
\* command but the last exited with zero (build within its timeout); a non-zero
\* exit or a timeout is the last command of the attempt and makes it failed.
C5_BuildStopStart ==
  LET n == Len(cmds) IN
  /\ n <= 3
  /\ \A k \in 1..n : cmds[k][1] = CommandOrder[k]
  /\ \A k \in 1..n : k < n => cmds[k][2] = "ok"
  /\ (n > 0 /\ cmds[n][2] /= "ok") => (pc \in {"finish", "loop"} /\ ~build_success)
  /\ pc = "stop" => n = 1
  /\ pc = "start" => n = 2
  /\ pc = "finish" => (build_success <=> (n = 3 /\ cmds[3][2] = "ok"))

\* C5 witness: stop exited non-zero after a successful build; start was not run
C5_Witness ==
  /\ pc = "loop"
  /\ cmds = <<(<<"build", "ok">>), (<<"stop", "fail">>)>>
  /\ ~build_success

\* the trigger decision as it would be had every failed attempt of this run succeeded
AsIfSucceeded == Triggered(AnyTrue(rets), this_path, shadowNeeded)

\* after an attempt, failed or not, and after an application that was not
\* triggered, the loop goes on with the next application of the list
RunGoesOn ==
  /\ (pc = "finish" /\ pc' \notin {"finish", "crashed"})
       => (pc' = "loop" /\ appIdx' = appIdx /\ local' = local)
  /\ (pc = "loop" /\ pc' \notin {"loop", "crashed"} /\ appIdx < Len(docker_compose_apps))
       => (pc' = "pull" /\ appIdx' = appIdx + 1 /\ imgIdx' = 1 /\ ~any_image_updated')

\* C6 as stated: a failed attempt does not end the run, the next application
\* is taken in list order, and every trigger decision is the one that would be
\* made had the earlier failed attempts succeeded.
C6_AsIfSucceeded ==
  [][ /\ RunGoesOn
      /\ DecideStep => ((pc' = "build") <=> AsIfSucceeded) ]_vars

\* C6 amended: a failed attempt does not end the run, the next application is
\* taken in list order, and the trigger decision of every application whose
\* compose file path had no failed attempt earlier in the run is the one that
\* would be made had the earlier failed attempts succeeded.
C6_OtherPathsAsIfSucceeded ==
  [][ /\ RunGoesOn
      /\ (DecideStep /\ this_path \notin failedPaths)
           => ((pc' = "build") <=> AsIfSucceeded) ]_vars

\* C6 witness: after a failed attempt of the first application, the second,
\* with another path, is pulling its images
C6_Witness ==
  /\ pc = "pull"
  /\ appIdx = 2
  /\ failedPaths /= {}
  /\ this_path \notin failedPaths
  /\ Len(rets) > 0

\* C7: the trigger decision of an application whose update_image calls all
\* returned false and whose path is not pending runs no command, leaves the
\* state file and the pending set as they are and goes to the next application.
C7_NotTriggeredNoEffect ==
  [][ (DecideStep /\ ~AnyTrue(rets) /\ this_path \notin needed)
        => /\ pc' = "loop"
           /\ cmds = <<>> /\ cmds' = <<>>
           /\ prev_run_file' = prev_run_file
           /\ needed' = needed
           /\ attempted' = attempted ]_vars

\* C7 witness: an application with pulls, none of which reported a change, has
\* been passed over without a command
C7_Witness ==
  /\ pc = "loop"
  /\ appIdx > 0
  /\ appIdx \notin attempted
  /\ Len(rets) > 0
  /\ ~AnyTrue(rets)
  /\ cmds = <<>>

BetweenApps == pc \in {"loop", "done"}

PendingByHistory(p) == attempt[p] \in {"failed", "unfinished"}

\* C8 as stated: between two applications and at the end of a run, a path is
\* pending iff its most recent attempt failed or none ended since it was marked.
C8_PendingIffFailed ==
  BetweenApps => \A p \in Paths : (p \in needed <=> PendingByHistory(p))

\* C8 amended: the same, except for a path whose successful attempt was
\* followed by a crash before the write of line 121: it is pending until its
\* next attempt although its most recent attempt succeeded.
C8_PendingIffFailedOrLost ==
  BetweenApps =>
    \A p \in Paths :
      IF p \in lostSuccess
        THEN p \in needed /\ attempt[p] = "ok"
        ELSE p \in needed <=> PendingByHistory(p)

\* C8 witness: at the end of a run one path's attempt failed in this run and
\* is pending, another's succeeded and is not
C8_Witness ==
  /\ pc = "done"
  /\ \E p \in failedPaths : attempt[p] = "failed" /\ p \in needed
  /\ \E q \in Paths : attempt[q] = "ok" /\ q \notin needed

\* a step that is one call of update_image
PullStep == pc = "pull" /\ imgIdx' = imgIdx + 1

\* C9: an update_image call for an image that was already pulled since the
\* registry last changed it returns false.
C9_SecondCallFalse ==
  [][ (PullStep /\ this_app.images_to_pull[imgIdx] \in fresh)
        => ~this_image_updated' ]_vars

\* C9 witness: two calls in succession for the same image: true, then false
C9_Witness ==
  /\ pc = "pull"
  /\ this_app.images_to_pull = <<"i1", "i1">>
  /\ rets = <<TRUE, FALSE>>

\* C10: after a call of update_image, its result is true exactly when the ID
\* now cached for the image (the pulled one) differs from the ID that was
\* cached before the call; with no image cached before, the call still pulls
\* and returns true.
C10_TrueIffIdDiffers ==
  (pc = "pull" /\ imgIdx > 1) =>
    LET img == this_app.images_to_pull[imgIdx - 1] IN
    /\ this_image_updated <=> (existing_image_id /= local[img])
    /\ local[img] \in Ids
    /\ existing_image_id = NoImage => this_image_updated

\* C10 witness: the image was not in the local cache; the call returned true
C10_Witness ==
  /\ pc = "pull"
  /\ imgIdx > 1
  /\ existing_image_id = NoImage
  /\ this_image_updated
  /\ local[this_app.images_to_pull[imgIdx - 1]] \in Ids

\* C11: after a write of a set S, a read by a fresh or differently populated
\* instance leaves that instance holding exactly S.
C11_RoundTrip ==
  (pc = "read" /\ prev_run_file.exists) => (~read_raised /\ needed = written)

\* C11 witness: an instance read back a two-path set written before
C11_Witness ==
  /\ pc = "read"
  /\ written = {"p1", "p3"}
  /\ needed = written
  /\ prev_run_file.exists

\* a step that is one call of PreviousRunData.read
ReadStep == pc \in {"object", "other"} /\ pc' = "read"

\* C12 as stated: a read where no file exists reports no error to its caller
\* and leaves the set empty.
C12_ReadSilent ==
  [][ (ReadStep /\ ~prev_run_file.exists) => (~read_raised' /\ needed' = {}) ]_vars

\* C12 amended: a read where no file exists raises FileNotFoundError to its
\* caller and leaves the set of the instance as it was (empty in a fresh one).
C12_ReadRaisesKeepsSet ==
  [][ (ReadStep /\ ~prev_run_file.exists) => (read_raised' /\ needed' = needed) ]_vars

\* C12 witness: a read with no file has raised; the instance is empty
C12_Witness ==
  /\ pc = "read"
  /\ ~prev_run_file.exists
  /\ read_raised
  /\ needed = {}

\* the repositories of the declared images of the services with a build stanza
BuiltRepositories ==
  {parse_image_name(compose_file[j].image)[1] :
     j \in {k \in 1..Len(compose_file) : compose_file[k].build}}

\* C13: the returned list holds no image of a repository that a service of the
\* file builds, wherever that service is declared, and holds the declared image
\* of every service without a build stanza whose repository is not built.
C13_LocallyBuiltExcluded ==
  pc = "resolved" =>
    /\ \A k \in 1..Len(result_list) : result_list[k][1] \notin BuiltRepositories
    /\ \A j \in 1..Len(compose_file) :
         (~compose_file[j].build
            /\ parse_image_name(compose_file[j].image)[1] \notin BuiltRepositories)
           => parse_image_name(compose_file[j].image) \in Range(result_list)

\* C13 witness: the first service pulls an image of a repository that a later
\* service builds; it is not in the list, and another service's image is
C13_Witness ==
  /\ pc = "resolved"
  /\ Len(compose_file) = 3
  /\ ~compose_file[1].build
  /\ compose_file[1].image = <<"web", "2">>
  /\ compose_file[3].build
  /\ compose_file[3].image = <<"web">>
  /\ <<"web", "2">> \notin Range(result_list)
  /\ <<"cache", "latest">> \in Range(result_list)

\* C14: from the read of the state file to the end of the run (normal, or by
\* an exception), and so between any two applications and before every
\* external command, the paths in the state file are the in-memory pending set.
C14_FileIsPendingSet ==
  pc \notin {"init", "crashed"} => (FileSet = needed /\ written = FileSet)

\* C14 witness: between two applications, after an addition and a removal were
\* both written: one path was marked and failed, a path of the file succeeded
C14_Witness ==
  /\ pc = "loop"
  /\ JustSucceeded
  /\ failedPaths /= {}
  /\ failedPaths \subseteq needed
  /\ FileSet = needed
  /\ prevFailed = {}
  /\ runs = 1

\* the pulls made so far for this_app are the first n entries of its pull
\* list, in list order, one update_image result each
PulledPrefix(n) ==
  /\ pulled = SubSeq(this_app.images_to_pull, 1, n)
  /\ Len(rets) = n

\* C15: while an application is pulling, update_image has been called once for
\* each entry before the next one, in list order; and when its trigger decision
\* is made, and so before its build command, it has been called for every
\* entry, whatever the earlier calls returned.
C15_AllPullsInOrder ==
  /\ pc = "pull" => PulledPrefix(imgIdx - 1)
  /\ (pc \in {"build", "stop", "start", "finish"} \/ (pc = "loop" /\ appIdx > 0))
       => PulledPrefix(Len(this_app.images_to_pull))

\* C15 witness: the first image was reported as changed, and the second was
\* pulled all the same before the build
C15_Witness ==
  /\ pc = "build"
  /\ pulled = <<"i1", "i2">>
  /\ rets[1]
  /\ Len(rets) = 2

\* the build commands invoked in this run for the entries with path p
BuildsOfPath(p) ==
  LET entries == {a \in DOMAIN builds : PathOf(a) = p}
      RECURSIVE Sum(_)
      Sum(E) == IF E = {} THEN 0
                ELSE LET a == CHOOSE x \in E : TRUE IN builds[a] + Sum(E \ {a})
  IN Sum(entries)

\* C16 as stated: within a run the build command is invoked at most once for
\* each compose file path.
C16_OncePerPath ==
  \A p \in Paths : BuildsOfPath(p) <= 1

\* C16 amended: within a run the build command is invoked at most once for
\* each entry of the application list, also after a failed attempt.
C16_OncePerEntry ==
  \A a \in DOMAIN builds : builds[a] <= 1

\* C16 witness: the run has ended; the attempt of the first entry failed and
\* its build was invoked once
C16_Witness ==
  /\ pc = "done"
  /\ builds[1] = 1
  /\ PathOf(1) \in failedPaths
  /\ attempt[PathOf(1)] = "failed"

\* C17: wherever a run stops (normal end, exception, crash), every path for
\* which an update_image call of the run changed the local cache and whose
\* build has not succeeded since is in the state file.
C17_ChangeNotLost ==
  pc \in {"done", "aborted", "crashed"} => owed \subseteq FileSet

\* C18: whenever the success branch is reached, the path to remove is a member
\* of the in-memory set, and the run is never ended by the KeyError of remove:
\* a run ended by an exception ended in the pulls, before any command of the
\* application being processed.
C18_RemoveNeverFails ==
  /\ (pc = "finish" /\ build_success) => this_path \in needed
  /\ pc = "aborted" => Len(cmds) = 0

\* C18 witness: the second entry of a path configured twice reaches the success
\* branch after the first entry's success removed the path
C18_Witness ==
  /\ pc = "finish"
  /\ build_success
  /\ appIdx = 2
  /\ PathOf(1) = PathOf(2)
  /\ builds = <<1, 1>>
  /\ PathOf(1) \notin failedPaths
  /\ this_path \in needed

\* the steps that are part of the processing of this_app
Processing == pc \in {"pull", "build", "stop", "start", "finish"}

\* C19: a step of a run changes the membership of no path in the pending set
\* and in the state file, except that of the path of the application being
\* processed (a crash loses the in-memory set and leaves the file).
C19_OtherPathsKept ==
  [][ Running =>
        \A p \in Paths :
          \/ Processing /\ p = this_path
          \/ /\ (p \in ReadOrEmpty(prev_run_file')) <=> (p \in FileSet)
             /\ pc' /= "crashed" => ((p \in needed') <=> (p \in needed)) ]_vars

\* C19 witness: an application's path was removed after its success; a path
\* that no application has is still in the set and in the file
C19_Witness ==
  /\ JustSucceeded
  /\ this_path \notin FileSet
  /\ "p3" \in needed
  /\ "p3" \in FileSet
  /\ \A a \in AppIdxs : PathOf(a) /= "p3"

====
